---- MODULE Spec2Model ----
(***************************************************************************)
(* Model of the gRPC service of chapar (package grpc, type Service):        *)
(* Dial, GetRequestStruct, Invoke, invokeServerStream, invokeUnary,        *)
(* prepareAuth, getMethodDesc, GetServices, getActiveEnvironment.          *)
(*                                                                         *)
(* Strings that the code takes apart are sequences of tokens; a nil        *)
(* pointer is the empty sequence <<>> and a non-nil pointer to v is <<v>>. *)
(***************************************************************************)
EXTENDS Integers, Sequences, FiniteSets, TLC

\* ------------------------------------------------------------------ bounds
MaxMsgs == 2        \* longest scripted server stream
MaxChannels == 2    \* operations start only while fewer channels exist
MaxTicks == 3       \* how long the clock of a waiting operation runs, in ticks

\* --------------------------------------------------------- program constants
DefaultTimeoutMs == 5000

\* ------------------------------------------------------------------- names
RequestIds == {"r1", "r2"}
CallerIds == RequestIds \cup {"r0"}          \* "r0" is not in the request store
StoredEnvIds == {"e1"}
CallerEnvIds == {"", "e1", "e9"}             \* "e9" is not in the environment store

\* Selected-method strings, one token per run of characters the code treats alike.
MU == <<"/", "p.S", "/", "U">>               \* unary
MSS == <<"/", "p.S", "/", "SS">>             \* server streaming
MCS == <<"/", "p.S", "/", "CS">>             \* client streaming
MBD == <<"/", "p.S", "/", "BD">>             \* bidirectional
MX == <<"/", "p.S", "/", "X">>               \* not in any registry
MSvc == <<"/", "p.S">>                       \* names the service, not a method
MNoSlash == <<"x", "p.S", "/", "U">>         \* first character is not a slash
MVar == <<"{{m}}">>                          \* environment placeholder
GVar == <<"{{g}}">>                          \* global-variable placeholder
NoMethod == <<>>

\* ------------------------------------------------------ descriptor registries
\* A registry (*protoregistry.Files) is named; NoReg is the absent cache entry.
NoReg == "none"
Registries == {"RegA", "RegB"}

MethodDesc(cs, ss) == [kind |-> "method", cs |-> cs, ss |-> ss]
ServiceDesc == [kind |-> "service", cs |-> FALSE, ss |-> FALSE]

\* registryFiles.FindDescriptorByName: <<>> is "not found", <<d>> the descriptor.
FindDescriptorByName(reg, name) ==
    IF name = <<"p.S">> THEN <<ServiceDesc>>
    ELSE IF name = <<"p.S", ".", "U">> THEN <<MethodDesc(FALSE, FALSE)>>
    ELSE IF name = <<"p.S", ".", "SS">> THEN <<MethodDesc(FALSE, TRUE)>>
    ELSE IF reg = "RegA" /\ name = <<"p.S", ".", "CS">> THEN <<MethodDesc(TRUE, FALSE)>>
    ELSE IF reg = "RegA" /\ name = <<"p.S", ".", "BD">> THEN <<MethodDesc(TRUE, TRUE)>>
    ELSE <<>>

\* fullname[1:] drops the first character of the string.
DropFirstChar(s) ==
    IF Head(s) \in {"/", "x"} THEN Tail(s)
    ELSE IF Head(s) = "{{m}}" THEN <<"{m}}">> \o Tail(s)
    ELSE IF Head(s) = "{{g}}" THEN <<"{g}}">> \o Tail(s)
    ELSE <<"?">> \o Tail(s)

\* strings.Replace(s, old, new, 1): only the first occurrence.
RECURSIVE ReplaceFirst(_, _, _)
ReplaceFirst(s, old, new) ==
    IF s = <<>> THEN <<>>
    ELSE IF Head(s) = old THEN <<new>> \o Tail(s)
    ELSE <<Head(s)>> \o ReplaceFirst(Tail(s), old, new)

\* name := strings.Replace(fullname[1:], "/", ".", 1)
DottedName(fullname) == ReplaceFirst(DropFirstChar(fullname), "/", ".")

\* ---------------------------------------------------------- outgoing metadata
\* metadata.MD is modelled as the sequence of its <<key, value>> entries; keys
\* are stored lower-cased by the metadata package, and a value is the sequence
\* of the pieces of text it is made of.
Lower(k) ==
    CASE k = "Authorization" -> "authorization"
      [] k = "X-Api-Key" -> "x-api-key"
      [] OTHER -> k

\* md.Append(k, v)
MDAppend(md, k, v) == Append(md, <<Lower(k), v>>)

\* The outgoing context carries a base MD and the pairs appended afterwards.
\* metadata.NewOutgoingContext(ctx, md): the context's outgoing metadata IS md.
NewOutgoingContext(ctx, md) == [md |-> md, added |-> <<>>]

\* metadata.AppendToOutgoingContext(ctx, k, v): one more pair after what is there.
AppendToOutgoingContext(ctx, k, v) ==
    [md |-> ctx.md, added |-> Append(ctx.added, <<Lower(k), v>>)]

\* What the transport sends for a context.
SentMetadata(ctx) == ctx.md \o ctx.added

\* A loop without the test of the enabled flag.
RECURSIVE AppendEnabled_All(_, _)
AppendEnabled_All(ctx, items) ==
    IF items = <<>> THEN ctx
    ELSE AppendEnabled_All(AppendToOutgoingContext(ctx, Head(items).Key, Head(items).Value),
                           Tail(items))

\* Invoke, lines 255-261: the enabled entries, appended in order.
RECURSIVE AppendEnabled(_, _)
AppendEnabled(ctx, items) ==
    IF items = <<>> THEN ctx
    ELSE IF ~Head(items).Enable THEN AppendEnabled(ctx, Tail(items))
    ELSE AppendEnabled(AppendToOutgoingContext(ctx, Head(items).Key, Head(items).Value),
                       Tail(items))

\* -------------------------------------------------------------------- auth
\* prepareAuth: md is <<>> for a nil *metadata.MD; panic is a nil dereference
\* of the variant payload.
AuthResult(panic, md) == [panic |-> panic, md |-> md]

prepareAuth(auth) ==
    IF auth.Type = "none" THEN AuthResult(FALSE, <<>>)
    ELSE IF auth.Type = "token" THEN
        IF auth.TokenAuth = <<>> THEN AuthResult(TRUE, <<>>)
        ELSE AuthResult(FALSE,
                 <<MDAppend(<<>>, "Authorization", <<"Bearer ", auth.TokenAuth[1].Token>>)>>)
    ELSE IF auth.Type = "basic" /\ auth.BasicAuth # <<>> THEN
        AuthResult(FALSE,
            <<MDAppend(<<>>, "Authorization",
                       <<"Basic ", auth.BasicAuth[1].Username, ":", auth.BasicAuth[1].Password>>)>>)
    ELSE IF auth.Type = "apikey" THEN
        IF auth.APIKeyAuth = <<>> THEN AuthResult(TRUE, <<>>)
        ELSE AuthResult(FALSE,
                 <<MDAppend(<<>>, auth.APIKeyAuth[1].Key, auth.APIKeyAuth[1].Value)>>)
    ELSE AuthResult(FALSE, <<>>)

\* Invoke, lines 255-265: the call context after metadata and auth.
OutgoingContext(spec) ==
    LET ctx0 == NewOutgoingContext([md |-> <<>>, added |-> <<>>], <<>>)
        ctx1 == AppendEnabled(ctx0, spec.Metadata)
        auth == prepareAuth(spec.Auth)
    IN  IF auth.md # <<>> THEN NewOutgoingContext(ctx1, auth.md[1]) ELSE ctx1

\* ------------------------------------------------------------------ deadline
\* A deadline taken from the setting as it is, with no default.
TimeOut_NoDefault(ms) == ms

\* Invoke, lines 269-272.
TimeOut(ms) == IF ms > 0 THEN ms ELSE DefaultTimeoutMs

\* --------------------------------------------------------------- the peer
\* What the server does during one call, as the client sees it: event i (a
\* message, then the end of the stream) arrives gap*i milliseconds after the
\* call starts.  setup names the stream operation that fails, if any.
Msgs == {"a", "b", "bad"}            \* "bad" has no JSON rendering
Delays == {100, 5001}

Peer(setup, gap, msgs, end) == [setup |-> setup, gap |-> gap, msgs |-> msgs, end |-> end]
NoPeer == Peer("ok", 0, <<>>, "EOF")

\* The message sequences a peer streams: distinct neighbouring messages, so
\* that their order shows in the output.  The loop stops at the first message
\* it cannot render, so such a message is the last of its script.
GoodScript(n) == [i \in 1..n |-> IF i % 2 = 1 THEN "a" ELSE "b"]

Scripts(n) ==
    {GoodScript(k) : k \in 0..n}
    \cup {Append(GoodScript(k), "bad") : k \in 0..(n - 1)}

\* A fast peer streams up to MaxMsgs messages; a slow one (whose first event is
\* already later than any deadline) at most one.
StreamPeers ==
    {Peer("ok", 100, q, e) : q \in Scripts(MaxMsgs), e \in {"EOF", "Unavailable"}}
    \cup {Peer("ok", 5001, q, "EOF") : q \in Scripts(1)}
    \cup {Peer(f, 100, <<>>, "EOF") : f \in {"NewStream", "SendMsg", "CloseSend"}}

UnaryPeers ==
    {Peer("ok", g, <<m>>, "EOF") : g \in Delays, m \in Msgs}
    \cup {Peer("ok", g, <<>>, "Unavailable") : g \in Delays}

\* ------------------------------------------------------------ encoding
\* protojson Marshal: <<>> is an error, <<text>> the rendered text.
Marshal(m) == IF m = "bad" THEN <<>> ELSE <<(<<"{", m, "}">>)>>

\* fmt's %d
Itoa(n) == <<"0", "1", "2", "3", "4", "5", "6", "7", "8", "9">>[n + 1]

\* fmt.Sprintf("Message %d:\n%s\n\n", counter, string(respJSON))
MessageBlock(counter, json) == <<"Message ", Itoa(counter), ":\n">> \o json \o <<"\n\n">>

\* A loop that puts each new block in front of the earlier ones.
AppendBlock_Prepend(out, counter, json) == MessageBlock(counter, json) \o out

\* out += block
AppendBlock(out, counter, json) == out \o MessageBlock(counter, json)

\* counter++
NextCounter(counter) == counter + 1

\* One way a call can end: the returned string and error, the time at which it
\* returned, and whether response headers / trailers had arrived by then.
CallEnd(str, err, at, hdr, trl) ==
    [str |-> str, err |-> err, at |-> at, hdr |-> hdr, trl |-> trl, ops |-> <<>>]

\* The calls made on the connection or stream during one call, in order, each
\* with how it returned: "ok", "msg" (a message was received), "EOF" or "err".
Did(op, how) == <<op, how>>
WithOps(end, ops) == [end EXCEPT !.ops = ops]

\* Where the context's deadline cuts an event due at time t: before the
\* deadline the event is seen, after it the deadline is, at it either.
Seen(t, deadline) == t <= deadline
Expired(t, deadline) == t >= deadline

\* invokeServerStream, lines 340-365: the receive loop from event i on, ops
\* being the calls made so far.
RECURSIVE RecvLoop(_, _, _, _, _, _)
RecvLoop(peer, deadline, i, out, counter, ops) ==
    LET t == peer.gap * i
        onTime ==
            IF i <= Len(peer.msgs) THEN
                LET json == Marshal(peer.msgs[i])
                    ops2 == Append(ops, Did("RecvMsg", "msg"))
                IN  IF json = <<>>
                    THEN {WithOps(CallEnd(<<>>, "MarshalFailure", t, TRUE, FALSE), ops2)}
                    ELSE RecvLoop(peer, deadline, i + 1,
                                  AppendBlock(out, counter, json[1]), NextCounter(counter), ops2)
            ELSE IF peer.end = "EOF"
                 THEN {WithOps(CallEnd(out, "nil", t, TRUE, TRUE),
                               Append(ops, Did("RecvMsg", "EOF")))}
            ELSE {WithOps(CallEnd(<<>>, peer.end, t, TRUE, TRUE),
                          Append(ops, Did("RecvMsg", "err")))}
        late == {WithOps(CallEnd(<<>>, "DeadlineExceeded", deadline, i > 1, FALSE),
                         Append(ops, Did("RecvMsg", "err")))}
    IN  (IF Seen(t, deadline) THEN onTime ELSE {})
        \cup (IF Expired(t, deadline) THEN late ELSE {})

\* A stream that starts to receive without closing the send direction.
invokeServerStream_NoCloseSend(deadline, peer) ==
    IF peer.setup # "ok"
    THEN {WithOps(CallEnd(<<>>, peer.setup, 0, FALSE, FALSE), <<Did(peer.setup, "err")>>)}
    ELSE RecvLoop(peer, deadline, 1, <<>>, 0, <<Did("NewStream", "ok"), Did("SendMsg", "ok")>>)

\* invokeServerStream, lines 313-366.
invokeServerStream(deadline, peer) ==
    LET opened == <<Did("NewStream", "ok")>>
        sentReq == Append(opened, Did("SendMsg", "ok"))
        closed == Append(sentReq, Did("CloseSend", "ok"))
    IN  IF peer.setup = "NewStream" THEN
            {WithOps(CallEnd(<<>>, peer.setup, 0, FALSE, FALSE), <<Did("NewStream", "err")>>)}
        ELSE IF peer.setup = "SendMsg" THEN
            {WithOps(CallEnd(<<>>, peer.setup, 0, FALSE, FALSE),
                     Append(opened, Did("SendMsg", "err")))}
        ELSE IF peer.setup = "CloseSend" THEN
            {WithOps(CallEnd(<<>>, peer.setup, 0, FALSE, FALSE),
                     Append(sentReq, Did("CloseSend", "err")))}
        ELSE RecvLoop(peer, deadline, 1, <<>>, 0, closed)

\* invokeUnary, lines 368-386.
invokeUnary(deadline, peer) ==
    LET t == peer.gap
        onTime ==
            IF peer.end # "EOF"
            THEN {WithOps(CallEnd(<<>>, peer.end, t, TRUE, TRUE), <<Did("Invoke", "err")>>)}
            ELSE LET json == Marshal(peer.msgs[1])
                 IN  IF json = <<>>
                     THEN {WithOps(CallEnd(<<>>, "MarshalFailure", t, TRUE, TRUE),
                                   <<Did("Invoke", "ok")>>)}
                     ELSE {WithOps(CallEnd(json[1], "nil", t, TRUE, TRUE),
                                   <<Did("Invoke", "ok")>>)}
        late == {WithOps(CallEnd(<<>>, "DeadlineExceeded", deadline, FALSE, FALSE),
                         <<Did("Invoke", "err")>>)}
    IN  (IF Seen(t, deadline) THEN onTime ELSE {})
        \cup (IF Expired(t, deadline) THEN late ELSE {})

\* A status code that reads OK whatever the error.
StatusCode_AlwaysOK(err) == 0

\* status.Code(err) and its String()
StatusCode(err) ==
    CASE err = "nil" -> 0
      [] err = "DeadlineExceeded" -> 4
      [] err = "Unavailable" -> 14
      [] OTHER -> 2
StatusName(err) ==
    CASE err = "nil" -> "OK"
      [] err = "DeadlineExceeded" -> "DeadlineExceeded"
      [] err = "Unavailable" -> "Unavailable"
      [] OTHER -> "Unknown"

\* Invoke, lines 295-310: the Response built from the call's end.
BuildResponse(e) ==
    [Body |-> IF e.err # "nil" THEN <<>> ELSE e.str,
     Metadata |-> IF e.hdr THEN <<"hdr">> ELSE <<>>,
     Trailers |-> IF e.trl THEN <<"trl">> ELSE <<>>,
     TimePassed |-> e.at,
     Size |-> Len(e.str),
     Error |-> e.err,
     StatueCode |-> StatusCode(e.err),
     Status |-> StatusName(e.err)]

\* -------------------------------------------------------------------- Dial
\* The files security settings can name, and what a file on disk can hold.
Files == {"cert.pem", "key.pem", "ca.pem"}
FileKinds == {"missing", "cert", "key", "certkey", "garbage"}
NoFs == [f \in Files |-> "missing"]

\* os.ReadFile: <<>> is an error, <<content>> the bytes read.
ReadFile(fs, path) == IF fs[path] = "missing" THEN <<>> ELSE <<fs[path]>>

\* tls.X509KeyPair(certPEM, keyPEM): needs a certificate in the first block of
\* bytes and a private key in the second.
X509KeyPair(certPEM, keyPEM) == certPEM \in {"cert", "certkey"} /\ keyPEM \in {"key", "certkey"}

\* (*x509.CertPool).AppendCertsFromPEM(pem): whether any certificate was parsed.
AppendCertsFromPEM(pem) == pem \in {"cert", "certkey"}

\* Dial, lines 138-184: "ok" is a new *grpc.ClientConn, "err" an error.
\* Both reads of the pair are of ClientCertFile (lines 148 and 153), and the
\* result of AppendCertsFromPEM (line 175) is not looked at.
\* grpc.NewClient connects lazily and does not fail on an unreachable peer.
Dial(settings, fs) ==
    IF ~settings.Insecure THEN
        LET certFile == ReadFile(fs, settings.ClientCertFile)
            keyFile == ReadFile(fs, settings.ClientCertFile)
            certErr ==
                settings.ClientCertFile # ""
                /\ (certFile = <<>> \/ keyFile = <<>> \/ ~X509KeyPair(certFile[1], keyFile[1]))
            rootErr ==
                settings.RootCertFile # "" /\ ReadFile(fs, settings.RootCertFile) = <<>>
        IN  IF certErr \/ rootErr THEN "err" ELSE "ok"
    ELSE "ok"

\* The states of the disk that matter to a Dial with these settings.
FsChoices(settings) ==
    LET named == IF settings.Insecure THEN {}
                 ELSE {settings.ClientCertFile, settings.KeyFile, settings.RootCertFile}
    IN  {fs \in [Files -> FileKinds] : \A f \in Files : f \notin named => fs[f] = "missing"}

\* A channel as Dial returns it.
NewConn == [open |-> TRUE]

\* ------------------------------------------------- variables and environments
\* variables.GetVariables(): the global variable table.
GetVariables == [g |-> MU]

\* Substitution of one placeholder in a text field.
Substitute(text, placeholder, value) == IF text = placeholder THEN value ELSE text

\* variables.ApplyToEnv(vars, &env.Spec): global variables into the environment's values.
ApplyToEnv(vars, envSpec) == [envSpec EXCEPT !.m = Substitute(@, GVar, vars.g)]

\* variables.ApplyToGRPCRequest(vars, spec): global variables into the request.
ApplyToGRPCRequest(vars, spec) ==
    [spec EXCEPT !.LasSelectedMethod = Substitute(@, GVar, vars.g)]

\* env.ApplyToGRPCRequest(spec): the environment's values into the request.
EnvApplyToGRPCRequest(env, spec) ==
    [spec EXCEPT !.LasSelectedMethod = Substitute(@, MVar, env.Spec.m)]

\* ----------------------------------------------------------- call definitions
Entry(k, v, enable) == [Key |-> k, Value |-> <<v>>, Enable |-> enable]
MetadataVariants ==
    {<<>>,
     <<Entry("k1", "v1", TRUE)>>,
     <<Entry("k1", "v1", TRUE), Entry("k2", "v2", FALSE)>>,
     <<Entry("k1", "v1", TRUE), Entry("k1", "v3", TRUE)>>}

Auth(type, token, basic, apikey) ==
    [Type |-> type, TokenAuth |-> token, BasicAuth |-> basic, APIKeyAuth |-> apikey]
TokenPayload == [Token |-> "t1"]
BasicPayload == [Username |-> "u1", Password |-> "p1"]
APIKeyPayload == [Key |-> "X-Api-Key", Value |-> <<"secret123">>]
AuthNone == Auth("none", <<>>, <<>>, <<>>)
AuthVariants ==
    {AuthNone,
     Auth("", <<>>, <<>>, <<>>),
     Auth("token", <<TokenPayload>>, <<>>, <<>>),
     Auth("token", <<>>, <<>>, <<>>),
     Auth("basic", <<>>, <<BasicPayload>>, <<>>),
     Auth("basic", <<>>, <<>>, <<>>),
     Auth("apikey", <<>>, <<>>, <<APIKeyPayload>>),
     Auth("apikey", <<>>, <<>>, <<>>)}

Settings(insecure, cert, key, root, timeout) ==
    [Insecure |-> insecure, ClientCertFile |-> cert, KeyFile |-> key,
     RootCertFile |-> root, TimeoutMilliseconds |-> timeout]
SecurityVariants ==
    {Settings(TRUE, "", "", "", 0),
     Settings(FALSE, "", "", "", 0),
     Settings(FALSE, "cert.pem", "key.pem", "", 0),
     Settings(FALSE, "", "", "ca.pem", 0)}
Timeouts == {0, 200}

MethodVariants == {NoMethod, MU, MSS, MCS, MBD, MX, MSvc, MVar, MNoSlash}

BaseDef ==
    [LasSelectedMethod |-> MU,
     ServerReflection |-> TRUE,
     ProtoFiles |-> <<>>,
     Settings |-> Settings(TRUE, "", "", "", 0),
     Metadata |-> <<>>,
     Auth |-> AuthNone,
     Body |-> "ok"]

\* The call definitions the request store may hold: the base definition with
\* one aspect varied, metadata together with an auth that yields an entry, and
\* each call shape together with a timeout.
Defs ==
    {[BaseDef EXCEPT !.LasSelectedMethod = m] : m \in MethodVariants}
    \cup {[BaseDef EXCEPT !.ServerReflection = FALSE, !.ProtoFiles = f] : f \in {<<>>, <<"a.proto">>}}
    \cup {[BaseDef EXCEPT !.Settings = x] : x \in SecurityVariants}
    \cup {[BaseDef EXCEPT !.Body = "malformed"]}
    \cup {[BaseDef EXCEPT !.Metadata = md] : md \in MetadataVariants}
    \cup {[BaseDef EXCEPT !.Auth = a] : a \in AuthVariants}
    \cup {[BaseDef EXCEPT !.Metadata = md, !.Auth = a] :
            md \in MetadataVariants \ {<<>>},
            a \in {Auth("token", <<TokenPayload>>, <<>>, <<>>),
                   Auth("apikey", <<>>, <<>>, <<APIKeyPayload>>)}}
    \cup {[BaseDef EXCEPT !.LasSelectedMethod = m, !.Settings.TimeoutMilliseconds = t] :
            m \in {MU, MSS, MCS, MBD}, t \in Timeouts}

\* The second stored definition only has to differ from the first in identity.
OtherDefs == {[BaseDef EXCEPT !.ServerReflection = FALSE, !.ProtoFiles = <<"a.proto">>]}

\* ------------------------------------------------------------ schema files
\* What the schema-asset store can track (s.protoFiles.LoadProtoFilesFromDisk()).
AssetLists == {<<>>, <<"assets/t.proto">>}

\* The states of the asset store that matter to a definition: discovery by
\* reflection never asks the store.
AssetChoices(spec) == IF spec.ServerReflection THEN {<<>>} ELSE AssetLists

\* filepath.Dir and filepath.Base of the paths in use.
Dir(path) == IF path = "assets/t.proto" THEN "assets" ELSE "."
Base(path) == IF path = "assets/t.proto" THEN "t.proto" ELSE path

\* The import paths and file names of no file at all.
NoPaths == [importPaths |-> <<>>, fileNames |-> <<>>]

\* getImportPaths, lines 500-515: the explicit files first, then the tracked ones.
getImportPaths(protoFiles, files) ==
    [importPaths |-> [i \in 1..Len(files) |-> Dir(files[i])]
                     \o [i \in 1..Len(protoFiles) |-> Dir(protoFiles[i])],
     fileNames |-> [i \in 1..Len(files) |-> Base(files[i])]
                   \o [i \in 1..Len(protoFiles) |-> Base(protoFiles[i])]]

\* -------------------------------------------------------------------- state
VARIABLES
    requests,             \* state.Requests: id -> call definition
    environments,         \* state.Environments: id -> environment
    protoFilesRegistry,   \* Service.protoFilesRegistry: id -> registry or NoReg
    channels,             \* every *grpc.ClientConn Dial has returned, in order
    last,                 \* the operation that returned last, with its inputs and results
    procs                 \* per goroutine: the operation it is in and where in it

vars == <<requests, environments, protoFilesRegistry, channels, last, procs>>

\* getActiveEnvironment, lines 487-498: <<>> is nil, <<e>> the stored environment e.
getActiveEnvironment(id) ==
    IF id = "" THEN <<>>
    ELSE IF id \notin DOMAIN environments THEN <<>>
    ELSE <<id>>

\* s.protoFilesRegistry.Set(id, registry)
RegistrySet(cache, id, reg) == [cache EXCEPT ![id] = reg]

\* The record of an operation; these are its values before anything was done.
Blank(op, id, env) ==
    [op |-> op, id |-> id, env |-> env, fs |-> NoFs, peer |-> NoPeer,
     panic |-> FALSE, err |-> "nil", ret |-> <<>>,
     disc |-> 0, dials |-> 0, lookup |-> "none",
     mode |-> "none", assets |-> <<>>, files |-> NoPaths,
     method |-> <<>>, md |-> <<>>,
     sent |-> FALSE, path |-> "none", ctx |-> <<>>, deadline |-> 0, ops |-> <<>>]

\* What an operation leaves behind.
Fin(rec, cache, chans, envs) == [last |-> rec, cache |-> cache, channels |-> chans, envs |-> envs]

\* What a resolution step hands back to its caller.
Step(err, md, cache, chans, envs, disc, dials) ==
    [err |-> err, md |-> md, cache |-> cache, channels |-> chans, envs |-> envs,
     disc |-> disc, dials |-> dials, lookup |-> "none",
     mode |-> "none", assets |-> <<>>, files |-> NoPaths]

\* What one discovery run can produce: a registry, or "fail".
DiscoveryResults == Registries \cup {"fail"}

\* A discovery that stores what it got before it looks at the error: nil on
\* failure.
Discovered_SetBeforeCheck(id, r, cache, chans, envs) ==
    IF r = "fail"
    THEN Step("DiscoveryFailure", <<>>, RegistrySet(cache, id, NoReg), chans, envs, 1, 1)
    ELSE Step("nil", <<>>, RegistrySet(cache, id, r), chans, envs, 1, 1)

\* The outcome r of one discovery run, on behalf of id.
Discovered(id, r, cache, chans, envs) ==
    IF r = "fail" THEN Step("DiscoveryFailure", <<>>, cache, chans, envs, 1, 1)
    ELSE Step("nil", <<>>, RegistrySet(cache, id, r), chans, envs, 1, 1)

\* GetServices, lines 460-484, once Dial has returned conn.  assets is what the
\* schema-asset store tracks; mode records the branch taken and files what was
\* handed to ProtoFilesFromDisk by a run that succeeded.
Discover(id, spec, assets, cache, chans, envs) ==
    IF spec.ServerReflection THEN
        {[Discovered(id, r, cache, chans, envs) EXCEPT !.mode = "reflection", !.assets = assets]
         : r \in DiscoveryResults}
    ELSE IF Len(spec.ProtoFiles) > 0 THEN
        {[Discovered(id, r, cache, chans, envs) EXCEPT
             !.mode = "local", !.assets = assets,
             !.files = IF r = "fail" THEN NoPaths ELSE getImportPaths(assets, spec.ProtoFiles)]
         : r \in DiscoveryResults}
    ELSE {[Step("NoSchemaSource", <<>>, cache, chans, envs, 0, 1) EXCEPT
              !.mode = "nosource", !.assets = assets]}

\* GetServices, lines 438-485.
GetServicesRuns(id, envID, fs, cache, chans, envs) ==
    IF id \notin DOMAIN requests THEN
        {Step("ErrRequestNotFound", <<>>, cache, chans, envs, 0, 0)}
    ELSE
        LET activeEnvironment == getActiveEnvironment(envID)
            spec1 == ApplyToGRPCRequest(GetVariables, requests[id])
            envs2 == IF activeEnvironment = <<>> THEN envs
                     ELSE [envs EXCEPT ![activeEnvironment[1]].Spec = ApplyToEnv(GetVariables, @)]
            spec2 == IF activeEnvironment = <<>> THEN spec1
                     ELSE EnvApplyToGRPCRequest(envs2[activeEnvironment[1]], spec1)
        IN  IF Dial(spec2.Settings, fs) = "err" THEN
                {Step("DialFailure", <<>>, cache, chans, envs2, 0, 0)}
            ELSE UNION {Discover(id, spec2, assets, cache, Append(chans, NewConn), envs2)
                        : assets \in AssetChoices(spec2)}

\* getMethodDesc, lines 424-435: the lookup in the registry.
LookupMethod(reg, fullname) ==
    LET desc == FindDescriptorByName(reg, DottedName(fullname))
    IN  IF desc = <<>> THEN [err |-> "DescriptorNotFound", md |-> <<>>]
        ELSE IF desc[1].kind # "method" THEN [err |-> "NotAMethod", md |-> <<>>]
        ELSE [err |-> "nil", md |-> desc]

\* A getMethodDesc that reloads the registry whether or not it is cached.
getMethodDescRuns_NoCache(id, envID, fullname, fs, cache, chans, envs) ==
    {LET h == [g EXCEPT !.lookup = IF cache[id] # NoReg THEN "hit" ELSE "miss"]
     IN  IF h.err # "nil" THEN h
         ELSE LET found == LookupMethod(h.cache[id], fullname)
              IN  [h EXCEPT !.err = found.err, !.md = found.md]
     : g \in GetServicesRuns(id, envID, fs, cache, chans, envs)}

\* getMethodDesc, lines 412-436.
\* lookup records whether line 413 found the registry ("hit") or not ("miss").
getMethodDescRuns(id, envID, fullname, fs, cache, chans, envs) ==
    LET exist == cache[id] # NoReg
        resolved ==
            IF exist THEN {Step("nil", <<>>, cache, chans, envs, 0, 0)}
            ELSE GetServicesRuns(id, envID, fs, cache, chans, envs)
    IN  {LET h == [g EXCEPT !.lookup = IF exist THEN "hit" ELSE "miss"]
         IN  IF h.err # "nil" THEN h
             ELSE LET found == LookupMethod(h.cache[id], fullname)
                  IN  [h EXCEPT !.err = found.err, !.md = found.md]
         : g \in resolved}

\* protojson Unmarshal with DiscardUnknown: fails on malformed JSON only.
Unmarshal(body) == body # "malformed"

\* Invoke, lines 255-311: context, deadline, the call and the Response made of it.
InvokeCall(rec, spec, md, g) ==
    LET ctx == OutgoingContext(spec)
        timeOut == TimeOut(spec.Settings.TimeoutMilliseconds)
        ends == IF md.ss
                THEN UNION {{<<peer, e>> : e \in invokeServerStream(timeOut, peer)} : peer \in StreamPeers}
                ELSE UNION {{<<peer, e>> : e \in invokeUnary(timeOut, peer)} : peer \in UnaryPeers}
    IN  {Fin([rec EXCEPT !.peer = pe[1], !.sent = TRUE,
                         !.path = IF md.ss THEN "stream" ELSE "unary",
                         !.ctx = SentMetadata(ctx), !.deadline = timeOut,
                         !.ops = pe[2].ops,
                         !.err = pe[2].err, !.ret = <<BuildResponse(pe[2])>>],
             g.cache, g.channels, g.envs)
         : pe \in ends}

\* Invoke, lines 243-311, once Dial has returned conn and the descriptor lookup g.
InvokeResolved(rec, spec, g) ==
    LET rec2 == [rec EXCEPT !.disc = g.disc, !.dials = 1 + g.dials, !.md = g.md,
                            !.lookup = g.lookup, !.mode = g.mode, !.assets = g.assets,
                            !.files = g.files]
    IN  IF g.err # "nil" THEN
            {Fin([rec2 EXCEPT !.err = g.err], g.cache, g.channels, g.envs)}
        ELSE IF ~Unmarshal(spec.Body) THEN
            {Fin([rec2 EXCEPT !.err = "EncodeFailure"], g.cache, g.channels, g.envs)}
        ELSE IF prepareAuth(spec.Auth).panic THEN
            {Fin([rec2 EXCEPT !.panic = TRUE], g.cache, g.channels, g.envs)}
        ELSE InvokeCall(rec2, spec, g.md[1], g)

\* Invoke, lines 238-311, from Dial on, for one state of the disk.
InvokeDialed(rec, id, envMetaID, spec, fs, envs) ==
    LET rec2 == [rec EXCEPT !.fs = fs]
    IN  IF Dial(spec.Settings, fs) = "err" THEN
            {Fin([rec2 EXCEPT !.err = "DialFailure"], protoFilesRegistry, channels, envs)}
        ELSE UNION {InvokeResolved(rec2, spec, g) :
                      g \in getMethodDescRuns(id, envMetaID, spec.LasSelectedMethod, fs,
                                              protoFilesRegistry, Append(channels, NewConn), envs)}

\* Invoke, lines 216-311.  The environment is dereferenced without a nil check
\* (line 227), so a nil environment is a panic.
InvokeRuns(id, envID) ==
    LET rec == Blank("Invoke", id, envID)
    IN  IF id \notin DOMAIN requests THEN
            {Fin([rec EXCEPT !.err = "ErrRequestNotFound"], protoFilesRegistry, channels, environments)}
        ELSE
            LET activeEnvironment == getActiveEnvironment(envID)
            IN  IF activeEnvironment = <<>> THEN
                    {Fin([rec EXCEPT !.panic = TRUE], protoFilesRegistry, channels, environments)}
                ELSE
                    LET e == activeEnvironment[1]
                        envs2 == [environments EXCEPT ![e].Spec = ApplyToEnv(GetVariables, @)]
                        spec == EnvApplyToGRPCRequest(
                                    envs2[e], ApplyToGRPCRequest(GetVariables, requests[id]))
                        rec2 == [rec EXCEPT !.method = spec.LasSelectedMethod]
                    IN  IF spec.LasSelectedMethod = <<>> THEN
                            {Fin([rec2 EXCEPT !.err = "NoMethodSelected"],
                                 protoFilesRegistry, channels, envs2)}
                        ELSE UNION {InvokeDialed(rec2, id, envs2[e].ID, spec, fs, envs2) :
                                      fs \in FsChoices(spec.Settings)}

\* GetRequestStruct, lines 186-214.  The preview text is the empty message of
\* the method's input type; ret carries the descriptor it was rendered from.
GetRequestStructRuns(id, envID) ==
    LET rec == Blank("GetRequestStruct", id, envID)
    IN  IF id \notin DOMAIN requests THEN
            {Fin([rec EXCEPT !.err = "ErrRequestNotFound"], protoFilesRegistry, channels, environments)}
        ELSE
            LET method == requests[id].LasSelectedMethod
                rec2 == [rec EXCEPT !.method = method]
            IN  IF method = <<>> THEN
                    {Fin([rec2 EXCEPT !.err = "NoMethodSelected"],
                         protoFilesRegistry, channels, environments)}
                ELSE
                    {Fin([rec2 EXCEPT !.fs = gfs[2], !.err = gfs[1].err, !.md = gfs[1].md,
                                      !.disc = gfs[1].disc, !.dials = gfs[1].dials,
                                      !.lookup = gfs[1].lookup, !.ret = gfs[1].md,
                                      !.mode = gfs[1].mode, !.assets = gfs[1].assets,
                                      !.files = gfs[1].files],
                         gfs[1].cache, gfs[1].channels, gfs[1].envs)
                     : gfs \in UNION {{<<g, fs>> :
                                        g \in getMethodDescRuns(id, envID, method, fs,
                                                 protoFilesRegistry, channels, environments)}
                                      : fs \in FsChoices(requests[id].Settings)}}

\* GetServices, lines 438-485, as an operation of its own; ret is the registry
\* whose services it lists.
GetServicesOpRuns(id, envID) ==
    LET rec == Blank("GetServices", id, envID)
        settings == IF id \in DOMAIN requests THEN requests[id].Settings ELSE BaseDef.Settings
    IN  {Fin([rec EXCEPT !.fs = gfs[2], !.err = gfs[1].err,
                         !.disc = gfs[1].disc, !.dials = gfs[1].dials,
                         !.mode = gfs[1].mode, !.assets = gfs[1].assets,
                         !.files = gfs[1].files,
                         !.ret = IF gfs[1].err = "nil" THEN <<gfs[1].cache[id]>> ELSE <<>>],
             gfs[1].cache, gfs[1].channels, gfs[1].envs)
         : gfs \in UNION {{<<g, fs>> :
                            g \in GetServicesRuns(id, envID, fs,
                                     protoFilesRegistry, channels, environments)}
                          : fs \in FsChoices(settings)}}

\* ------------------------------------------------------------------ actions
\* The goroutines that call the service at the same time.
Procs == {"p1", "p2"}

\* A goroutine between operations; err is what its last operation returned.
Idle(err) ==
    [pc |-> "idle", op |-> "none", id |-> "r0", env |-> "", method |-> <<>>,
     reg |-> NoReg, err |-> err]

Init ==
    /\ requests \in {[id \in RequestIds |-> IF id = "r1" THEN d1 ELSE d2] :
                       d1 \in Defs, d2 \in OtherDefs}
    /\ environments = [e \in StoredEnvIds |-> [ID |-> e, Spec |-> [m |-> GVar]]]
    /\ protoFilesRegistry = [id \in CallerIds |-> NoReg]
    /\ channels = <<>>
    /\ last = Blank("none", "r0", "")
    /\ procs = [p \in Procs |-> Idle("nil")]

\* A panic ends the process: no operation starts after one.  Channels are
\* never released, so the model starts no operation once MaxChannels exist.
CanStart == ~last.panic /\ Len(channels) < MaxChannels

\* The (id, environmentID) arguments callers pass: every stored definition with
\* no environment and with the stored one, an environment that is not stored,
\* and an id that names no definition.
Calls ==
    {c \in CallerIds \X CallerEnvIds :
        \/ c[1] = "r1"
        \/ c[2] = "e1"
        \/ c[1] \in RequestIds /\ c[2] = ""}

\* The operation returns, leaving run behind.
Returns(run) ==
    /\ last' = run.last
    /\ protoFilesRegistry' = run.cache
    /\ channels' = run.channels
    /\ environments' = run.envs
    /\ UNCHANGED <<requests, procs>>

Invoke ==
    /\ CanStart
    /\ \E call \in Calls :
          \E run \in InvokeRuns(call[1], call[2]) : Returns(run)

GetRequestStruct ==
    /\ CanStart
    /\ \E call \in Calls :
          \E run \in GetRequestStructRuns(call[1], call[2]) : Returns(run)

GetServices ==
    /\ CanStart
    /\ \E call \in Calls :
          \E run \in GetServicesOpRuns(call[1], call[2]) : Returns(run)

Next == Invoke \/ GetRequestStruct \/ GetServices

Spec == Init /\ [][Next]_vars

\* ------------------------------------------------- operations, interleaved
\* The same operations run by several goroutines, cut where the code reads or
\* writes the shared registry map and where it waits for discovery I/O.  The
\* map's Get and Set are atomic; nothing else is held between them.

\* The call definitions of the interleaved runs.
ConcDefs ==
    {BaseDef,
     [BaseDef EXCEPT !.LasSelectedMethod = NoMethod],
     [BaseDef EXCEPT !.ServerReflection = FALSE]}

ConcInit ==
    /\ requests \in {[id \in RequestIds |-> IF id = "r1" THEN d1 ELSE d2] :
                       d1 \in ConcDefs, d2 \in OtherDefs}
    /\ environments = [e \in StoredEnvIds |-> [ID |-> e, Spec |-> [m |-> GVar]]]
    /\ protoFilesRegistry = [id \in CallerIds |-> NoReg]
    /\ channels = <<>>
    /\ last = Blank("none", "r0", "")
    /\ procs = [p \in Procs |-> Idle("nil")]

\* The definition as Invoke and GetServices use it: substituted and overlaid.
SpecFor(id, envs, e) ==
    EnvApplyToGRPCRequest(envs[e], ApplyToGRPCRequest(GetVariables, requests[id]))

EnvsApplied(e) == [environments EXCEPT ![e].Spec = ApplyToEnv(GetVariables, @)]

\* A goroutine enters an operation and runs it up to its first access to the
\* registry map: GetRequestStruct lines 187-198, Invoke lines 217-244,
\* GetServices line 438.  The callers name stored definitions and the stored
\* environment, so that the runs are those in which the registry is reached.
CStart(p) ==
    /\ procs[p].pc = "idle"
    /\ Len(channels) < MaxChannels
    /\ \E op \in {"Invoke", "GetRequestStruct", "GetServices"}, id \in RequestIds, e \in StoredEnvIds :
          LET me == [Idle("nil") EXCEPT !.op = op, !.id = id, !.env = e]
          IN  CASE op = "GetServices" ->
                    /\ procs' = [procs EXCEPT ![p] = [me EXCEPT !.pc = "GetServices"]]
                    /\ UNCHANGED <<environments, channels>>
                [] op = "GetRequestStruct" ->
                    LET method == requests[id].LasSelectedMethod
                    IN  /\ procs' = [procs EXCEPT ![p] =
                              IF method = <<>> THEN Idle("NoMethodSelected")
                              ELSE [me EXCEPT !.pc = "getMethodDesc", !.method = method]]
                        /\ UNCHANGED <<environments, channels>>
                [] op = "Invoke" ->
                    LET envs2 == EnvsApplied(e)
                        spec == SpecFor(id, envs2, e)
                        method == spec.LasSelectedMethod
                    IN  /\ environments' = envs2
                        /\ \E fs \in FsChoices(spec.Settings) :
                              IF method = <<>> THEN
                                  /\ procs' = [procs EXCEPT ![p] = Idle("NoMethodSelected")]
                                  /\ UNCHANGED channels
                              ELSE IF Dial(spec.Settings, fs) = "err" THEN
                                  /\ procs' = [procs EXCEPT ![p] = Idle("DialFailure")]
                                  /\ UNCHANGED channels
                              ELSE
                                  /\ procs' = [procs EXCEPT ![p] =
                                        [me EXCEPT !.pc = "getMethodDesc", !.method = method]]
                                  /\ channels' = Append(channels, NewConn)
    /\ UNCHANGED <<requests, protoFilesRegistry, last>>

\* getMethodDesc, line 413: s.protoFilesRegistry.Get(id).
CCacheGet(p) ==
    /\ procs[p].pc = "getMethodDesc"
    /\ LET reg == protoFilesRegistry[procs[p].id]
       IN  procs' = [procs EXCEPT ![p] =
               IF reg # NoReg THEN [@ EXCEPT !.pc = "lookup", !.reg = reg]
               ELSE [@ EXCEPT !.pc = "GetServices"]]
    /\ UNCHANGED <<requests, environments, protoFilesRegistry, channels, last>>

\* GetServices, lines 439-461: up to the start of discovery.
CGetServices(p) ==
    /\ procs[p].pc = "GetServices"
    /\ LET envs2 == EnvsApplied(procs[p].env)
           spec == SpecFor(procs[p].id, envs2, procs[p].env)
       IN  /\ environments' = envs2
           /\ \E fs \in FsChoices(spec.Settings) :
                 IF Dial(spec.Settings, fs) = "err" THEN
                     /\ procs' = [procs EXCEPT ![p] = Idle("DialFailure")]
                     /\ UNCHANGED channels
                 ELSE
                     /\ channels' = Append(channels, NewConn)
                     /\ procs' = [procs EXCEPT ![p] =
                           IF spec.ServerReflection \/ Len(spec.ProtoFiles) > 0
                           THEN [@ EXCEPT !.pc = "discovering"]
                           ELSE Idle("NoSchemaSource")]
    /\ UNCHANGED <<requests, protoFilesRegistry, last>>

\* GetServices, lines 461-481: discovery answers; on success the registry is
\* stored with Set and GetServices returns.
CDiscovered(p) ==
    /\ procs[p].pc = "discovering"
    /\ \E r \in DiscoveryResults :
          IF r = "fail" THEN
              /\ procs' = [procs EXCEPT ![p] = Idle("DiscoveryFailure")]
              /\ UNCHANGED protoFilesRegistry
          ELSE
              /\ protoFilesRegistry' = RegistrySet(protoFilesRegistry, procs[p].id, r)
              /\ procs' = [procs EXCEPT ![p] =
                    IF @.op = "GetServices" THEN Idle("nil") ELSE [@ EXCEPT !.pc = "reget"]]
    /\ UNCHANGED <<requests, environments, channels, last>>

\* getMethodDesc, line 421: the second Get, after GetServices has returned.
CReget(p) ==
    /\ procs[p].pc = "reget"
    /\ procs' = [procs EXCEPT ![p] =
          [@ EXCEPT !.pc = "lookup", !.reg = protoFilesRegistry[procs[p].id]]]
    /\ UNCHANGED <<requests, environments, protoFilesRegistry, channels, last>>

\* getMethodDesc, lines 424-435, and the rest of the operation: the preview of
\* GetRequestStruct, or Invoke's lines 249-311; the goroutine keeps the error
\* the operation returned ("panic" for a panic).
CFinish(p) ==
    /\ procs[p].pc = "lookup"
    /\ LET me == procs[p]
           found == LookupMethod(me.reg, me.method)
           g == [Step(found.err, found.md, protoFilesRegistry, channels, environments, 0, 0)
                   EXCEPT !.lookup = "hit"]
           ends == IF me.op = "GetRequestStruct" THEN {found.err}
                   ELSE {IF run.last.panic THEN "panic" ELSE run.last.err :
                           run \in InvokeResolved(Blank("Invoke", me.id, me.env),
                                                  SpecFor(me.id, environments, me.env), g)}
       IN  \E err \in ends : procs' = [procs EXCEPT ![p] = Idle(err)]
    /\ UNCHANGED <<requests, environments, protoFilesRegistry, channels, last>>

ConcNext ==
    \E p \in Procs :
        \/ CStart(p)
        \/ CCacheGet(p)
        \/ CGetServices(p)
        \/ CDiscovered(p)
        \/ CReget(p)
        \/ CFinish(p)

ConcSpec == ConcInit /\ [][ConcNext]_vars

\* ---------------------------------------------------- Invoke, with its waits
\* One Invoke at a time, cut where it waits for the peer: for the answer to
\* reflection discovery (GetServices line 461, under context.Background()) and
\* for the answer to the call (lines 287-293, under the context of line 274).
\* A waiting operation counts the time it has waited in ticks of TickMs.
TickMs == 100

\* A peer answers a request after this long; Silent is the peer that never does.
Silent == -1
PeerTimes == {0, 100, Silent}

LiveProcs == {"p1"}

\* The call definitions of these runs: a unary method found by reflection, and
\* the definition that reads local schema files, with deadlines within the
\* reach of the clock.
LiveDefs == {[BaseDef EXCEPT !.Settings.TimeoutMilliseconds = t] : t \in {100, 200}}
LiveOtherDefs == {[d EXCEPT !.Settings.TimeoutMilliseconds = 100] : d \in OtherDefs}

\* A goroutine that is in no operation; err is what its last Invoke returned.
LIdle(err) ==
    [pc |-> "idle", id |-> "r0", waited |-> 0, deadline |-> 0, answerAt |-> 0, err |-> err]

\* The runs start from a fresh Service or from one in which a GetServices of
\* "r1" has succeeded (one registry stored, its channel still there).
LiveInit ==
    /\ requests \in {[id \in RequestIds |-> IF id = "r1" THEN d1 ELSE d2] :
                       d1 \in LiveDefs, d2 \in LiveOtherDefs}
    /\ \/ /\ protoFilesRegistry = [id \in CallerIds |-> NoReg]
          /\ channels = <<>>
          /\ environments = [e \in StoredEnvIds |-> [ID |-> e, Spec |-> [m |-> GVar]]]
       \/ /\ \E r \in Registries :
                protoFilesRegistry = [id \in CallerIds |-> IF id = "r1" THEN r ELSE NoReg]
          /\ channels = <<NewConn>>
          /\ environments = [e \in StoredEnvIds |->
                                [ID |-> e, Spec |-> ApplyToEnv(GetVariables, [m |-> GVar])]]
    /\ last = Blank("none", "r0", "")
    /\ procs = [p \in Procs |-> LIdle("nil")]

\* Invoke, lines 249-293, once the descriptor is there: the deadline is set
\* (line 274) and the call goes out to a peer that answers at answerAt.
LCalling(id, spec, answerAt) ==
    [pc |-> "calling", id |-> id, waited |-> 0,
     deadline |-> TimeOut(spec.Settings.TimeoutMilliseconds),
     answerAt |-> answerAt, err |-> "nil"]

\* Invoke, lines 217-247, with the stored environment: up to the call when the
\* registry is cached (line 413), else up to the request that discovery sends
\* to the peer (line 461); discovery from local files asks no peer.
LStart(p) ==
    /\ procs[p].pc = "idle"
    /\ Len(channels) < MaxChannels
    /\ \E id \in RequestIds, e \in StoredEnvIds, answerAt \in PeerTimes :
          LET envs2 == EnvsApplied(e)
              spec == SpecFor(id, envs2, e)
          IN  /\ environments' = envs2
              /\ IF protoFilesRegistry[id] # NoReg THEN
                     /\ channels' = Append(channels, NewConn)
                     /\ procs' = [procs EXCEPT ![p] = LCalling(id, spec, answerAt)]
                 ELSE
                     /\ channels' = Append(Append(channels, NewConn), NewConn)
                     /\ procs' = [procs EXCEPT ![p] =
                           [LIdle("nil") EXCEPT
                               !.pc = "discovering", !.id = id,
                               !.answerAt = IF spec.ServerReflection THEN answerAt ELSE 0]]
    /\ UNCHANGED <<requests, protoFilesRegistry, last>>

\* ProtoFilesFromReflectionAPI(context.Background(), conn) returns when the
\* peer has answered; its context has no deadline.
ReflectionReturns(p) == procs[p].answerAt = procs[p].waited

\* Time passes for a waiting operation.  An answer is taken when it arrives,
\* and the context of the call ends the wait at its deadline.
LTick(p) ==
    /\ procs[p].pc \in {"discovering", "calling"}
    /\ procs[p].waited < MaxTicks * TickMs
    /\ procs[p].answerAt # procs[p].waited
    /\ procs[p].pc = "calling" => procs[p].waited < procs[p].deadline
    /\ procs' = [procs EXCEPT ![p].waited = @ + TickMs]
    /\ UNCHANGED <<requests, environments, protoFilesRegistry, channels, last>>

\* GetServices, lines 461-481, and getMethodDesc, lines 421-435: discovery
\* returns; on success the registry is stored and the call starts.
LDiscovered(p) ==
    /\ procs[p].pc = "discovering"
    /\ ReflectionReturns(p)
    /\ \E r \in DiscoveryResults, answerAt \in PeerTimes :
          IF r = "fail" THEN
              /\ procs' = [procs EXCEPT ![p] = LIdle("DiscoveryFailure")]
              /\ UNCHANGED protoFilesRegistry
          ELSE
              /\ protoFilesRegistry' = RegistrySet(protoFilesRegistry, procs[p].id, r)
              /\ procs' = [procs EXCEPT ![p] =
                    LCalling(procs[p].id,
                             SpecFor(procs[p].id, environments, CHOOSE e \in StoredEnvIds : TRUE),
                             answerAt)]
    /\ UNCHANGED <<requests, environments, channels, last>>

\* Invoke, lines 287-310: the peer's answer arrives within the deadline.
LAnswered(p) ==
    /\ procs[p].pc = "calling"
    /\ procs[p].answerAt = procs[p].waited
    /\ procs[p].waited <= procs[p].deadline
    /\ procs' = [procs EXCEPT ![p] = LIdle("nil")]
    /\ UNCHANGED <<requests, environments, protoFilesRegistry, channels, last>>

\* Invoke, lines 274 and 287-310: the context's deadline ends the call.
LDeadline(p) ==
    /\ procs[p].pc = "calling"
    /\ procs[p].waited >= procs[p].deadline
    /\ procs' = [procs EXCEPT ![p] = LIdle("DeadlineExceeded")]
    /\ UNCHANGED <<requests, environments, protoFilesRegistry, channels, last>>

LiveNext ==
    \E p \in LiveProcs :
        \/ LStart(p)
        \/ LTick(p)
        \/ LDiscovered(p)
        \/ LAnswered(p)
        \/ LDeadline(p)

\* The goroutine runs and time passes: a step that can be taken is taken.
LiveSpec == LiveInit /\ [][LiveNext]_vars /\ WF_vars(LiveNext)

\* ------------------------------------------------------------------ claims
\* The stored call definition an operation record is about.
DefOf(rec) == requests[rec.id]

\* C1, as claimed: once an identity has a cache entry, no resolution of that
\* identity (GetServices, or getMethodDesc inside Invoke / GetRequestStruct)
\* performs discovery I/O, and the entry is never replaced.
C1_CacheNeverRediscovered ==
    [][\A id \in RequestIds :
          (protoFilesRegistry[id] # NoReg /\ last'.id = id)
          => (last'.disc = 0 /\ protoFilesRegistry'[id] = protoFilesRegistry[id])]_vars

\* C1, amended: the resolution done by getMethodDesc (inside Invoke and
\* GetRequestStruct) reuses a cache entry: it performs no discovery I/O, leaves
\* the whole cache as it was and looks the method up in the stored registry.
\* GetServices called directly runs discovery every time it gets past Dial and
\* a schema source is configured, and on success stores the registry it found.
C1_GetMethodDescReusesCache ==
    [][/\ \A id \in RequestIds :
            (protoFilesRegistry[id] # NoReg /\ last'.id = id
                /\ last'.op \in {"Invoke", "GetRequestStruct"})
            => /\ last'.disc = 0
               /\ protoFilesRegistry' = protoFilesRegistry
               /\ last'.lookup \in {"none", "hit"}
               /\ last'.lookup = "hit"
                    => last'.md = LookupMethod(protoFilesRegistry[id], last'.method).md
       /\ (last'.op = "GetServices" /\ last'.err = "nil")
            => /\ last'.disc = 1
               /\ protoFilesRegistry'[last'.id] = last'.ret[1]]_vars

\* C1 witness: a getMethodDesc resolution found the registry in the cache and
\* resolved a method from it.
C1_Witness ==
    /\ last.op \in {"Invoke", "GetRequestStruct"}
    /\ last.lookup = "hit"
    /\ last.md # <<>>
    /\ last.disc = 0

\* C2, as claimed: whenever a call is sent, its outgoing context holds every
\* enabled metadata entry of the call definition and the resolved auth entry.
InContext(ctx, key, value) == \E j \in DOMAIN ctx : ctx[j] = <<Lower(key), value>>
C2_MetadataAndAuthSent ==
    last.sent =>
        LET def == DefOf(last)
            auth == prepareAuth(def.Auth)
        IN  /\ \A i \in DOMAIN def.Metadata :
                  def.Metadata[i].Enable
                  => InContext(last.ctx, def.Metadata[i].Key, def.Metadata[i].Value)
            /\ auth.md # <<>>
                  => \A k \in DOMAIN auth.md[1] :
                        InContext(last.ctx, auth.md[1][k][1], auth.md[1][k][2])

\* C3, as claimed: when an operation has returned, no channel that Dial
\* created is still open.
C3_ChannelsReleased == \A i \in DOMAIN channels : ~channels[i].open

\* The body the spec describes for the messages msgs: block i is the label
\* "Message i:", the text of message i and a blank line.
BlockLen == Len(MessageBlock(0, Marshal("a")[1]))
IsBodyOf(body, msgs) ==
    /\ Len(body) = BlockLen * Len(msgs)
    /\ \A i \in DOMAIN msgs :
          SubSeq(body, BlockLen * (i - 1) + 1, BlockLen * i)
            = <<"Message ", Itoa(i - 1), ":\n", "{", msgs[i], "}", "\n\n">>

\* C4, as claimed: when the receive after k messages fails with an error of the
\* peer, the call's error is that error and the returned body still holds the
\* k messages received before it.
C4_PartialBodyRetained ==
    (last.path = "stream" /\ last.err = "Unavailable")
    => /\ last.ret # <<>>
       /\ last.ret[1].Error = "Unavailable"
       /\ IsBodyOf(last.ret[1].Body, last.peer.msgs)

\* C5, as claimed: a resolved method with the client-streaming flag set makes
\* Invoke fail before anything is sent.
C5_ClientStreamingRejected ==
    (last.op = "Invoke" /\ last.md # <<>> /\ last.md[1].cs)
    => (~last.sent /\ last.err # "nil")

\* C6, as claimed: at no time are two discovery runs for the same identity
\* in progress.
C6_SingleDiscoveryPerIdentity ==
    \A id \in RequestIds :
        Cardinality({p \in Procs : procs[p].pc = "discovering" /\ procs[p].id = id}) <= 1

\* The selected method of a stored definition after variable substitution
\* and the overlay of the environment the caller names, as the stores stand.
EffectiveMethod(id, envID) ==
    LET spec1 == ApplyToGRPCRequest(GetVariables, requests[id])
        env == getActiveEnvironment(envID)
    IN  IF env = <<>> THEN spec1.LasSelectedMethod
        ELSE EnvApplyToGRPCRequest(
                 [environments[env[1]] EXCEPT !.Spec = ApplyToEnv(GetVariables, @)],
                 spec1).LasSelectedMethod

\* C7, as claimed: Invoke or GetRequestStruct of a stored definition whose
\* selected method is empty after substitution and overlay returns
\* NoMethodSelected, having dialled nothing, discovered nothing and left the
\* resolver cache as it was.
C7_NoMethodSelected ==
    [][(/\ last'.op \in {"Invoke", "GetRequestStruct"}
        /\ last'.id \in RequestIds
        /\ EffectiveMethod(last'.id, last'.env) = NoMethod)
       => /\ last'.err = "NoMethodSelected"
          /\ ~last'.panic
          /\ last'.dials = 0 /\ last'.disc = 0
          /\ channels' = channels
          /\ protoFilesRegistry' = protoFilesRegistry]_vars

\* What the claim asks of the header set resolved for an auth config.
AuthAsClaimed(a, md) ==
    /\ Len(md) <= 1
    /\ (a.Type = "token" /\ a.TokenAuth # <<>>)
          => md = <<(<<Lower("Authorization"), <<"Bearer ", a.TokenAuth[1].Token>>>>)>>
    /\ (a.Type = "basic" /\ a.BasicAuth # <<>>)
          => /\ Len(md) = 1
             /\ md[1][1] = Lower("Authorization")
             /\ LET v == md[1][2]
                IN  /\ Len(v) >= 3
                    /\ SubSeq(v, Len(v) - 2, Len(v))
                         = <<a.BasicAuth[1].Username, ":", a.BasicAuth[1].Password>>
    /\ (a.Type = "apikey" /\ a.APIKeyAuth # <<>>)
          => md = <<(<<Lower(a.APIKeyAuth[1].Key), a.APIKeyAuth[1].Value>>)>>
    /\ a.Type \in {"none", ""} => md = <<>>

\* C8, as claimed: whenever Invoke gets as far as resolving auth, it resolves
\* (without failing) a header set of at most one entry, fixed by the variant;
\* this for every auth config, one with a tag but no payload included.
C8_AuthExclusive ==
    (last.op = "Invoke" /\ last.md # <<>> /\ Unmarshal(DefOf(last).Body))
    => LET r == prepareAuth(DefOf(last).Auth)
       IN  /\ ~r.panic
           /\ ~last.panic
           /\ AuthAsClaimed(DefOf(last).Auth, IF r.md = <<>> THEN <<>> ELSE r.md[1])

\* The peer sends its messages and then a clean end of stream, and every
\* message has a rendering.
Answers(peer) ==
    /\ peer.setup = "ok"
    /\ peer.end = "EOF"
    /\ \A i \in DOMAIN peer.msgs : peer.msgs[i] # "bad"

\* When, after the start of the call, the peer has sent its last event.
AnsweredAt(rec) ==
    IF rec.path = "stream" THEN rec.peer.gap * (Len(rec.peer.msgs) + 1) ELSE rec.peer.gap

\* C9: a server-streaming call that ends without error has as its body exactly
\* one block per message the peer emitted, block i labelled "Message i:" and
\* holding the text of message i, in arrival order from index 0; and a peer
\* that emits its messages and the end of stream before the deadline ends the
\* call without error.
C9_StreamingOrder ==
    last.path = "stream"
    => /\ last.err = "nil"
            => /\ last.peer.end = "EOF"
               /\ IsBodyOf(last.ret[1].Body, last.peer.msgs)
       /\ (Answers(last.peer) /\ AnsweredAt(last) < last.deadline) => last.err = "nil"

\* C9 witness: a stream of two different messages was received and rendered.
C9_Witness ==
    /\ last.path = "stream"
    /\ last.err = "nil"
    /\ Len(last.peer.msgs) >= 2
    /\ last.peer.msgs[1] # last.peer.msgs[2]
    /\ last.ret[1].Body # <<>>

C11_FailureInResult ==
    (last.op = "Invoke" /\ last.sent)
    => /\ last.ret # <<>>
       /\ LET resp == last.ret[1]
          IN  /\ resp.Error = last.err
              /\ (resp.StatueCode = 0) <=> (resp.Error = "nil")
              /\ (resp.Status = "OK") <=> (resp.Error = "nil")
              /\ (last.peer.setup = "ok" /\ last.peer.end # "EOF"
                    /\ (\A i \in DOMAIN last.peer.msgs : last.peer.msgs[i] # "bad")
                    /\ AnsweredAt(last) < last.deadline)
                 => /\ resp.Error = last.peer.end
                    /\ resp.Status = last.peer.end
                    /\ resp.StatueCode = 14
                    /\ resp.Metadata # <<>> /\ resp.Trailers # <<>>
                    /\ resp.TimePassed = AnsweredAt(last)
              /\ resp.Error = "DeadlineExceeded"
                 => /\ resp.StatueCode = 4
                    /\ resp.Status = "DeadlineExceeded"
                    /\ resp.TimePassed = last.deadline

\* C11 witness: a stream that failed with the peer's status after a message
\* came back as a Response with that status, headers and trailers.
C11_Witness ==
    /\ last.op = "Invoke"
    /\ last.path = "stream"
    /\ Len(last.peer.msgs) >= 1
    /\ last.err = "Unavailable"
    /\ last.ret # <<>>
    /\ last.ret[1].StatueCode = 14
    /\ last.ret[1].Metadata # <<>>


\* Whether the security material the settings name is bad in the claim's
\* sense: a configured root CA file that cannot be read or holds no
\* certificate, or a configured client pair of which a file cannot be read or
\* which does not parse, the certificate taken from the certificate path and
\* the key from the key path.
BadMaterial(settings, fs) ==
    LET root == ReadFile(fs, settings.RootCertFile)
        cert == ReadFile(fs, settings.ClientCertFile)
        key == ReadFile(fs, settings.KeyFile)
    IN  \/ settings.RootCertFile # "" /\ (root = <<>> \/ ~AppendCertsFromPEM(root[1]))
        \/ settings.ClientCertFile # ""
             /\ (cert = <<>> \/ key = <<>> \/ ~X509KeyPair(cert[1], key[1]))

\* C12, as claimed: GetServices of a stored definition (which always gets to
\* Dial) fails with DialFailure whenever insecure is unset and the security
\* material is bad, and never fails so when insecure is set.
C12_DialFailsOnBadMaterial ==
    (last.op = "GetServices" /\ last.id \in RequestIds)
    => LET settings == DefOf(last).Settings
       IN  /\ (~settings.Insecure /\ BadMaterial(settings, last.fs))
                => last.err = "DialFailure"
           /\ settings.Insecure => last.err # "DialFailure"


\* The directory and base name of every file of a set of paths.
PathPairs(paths) == {<<Dir(p), Base(p)>> : p \in paths}
Range(q) == {q[i] : i \in DOMAIN q}

\* C13, as claimed: a resolution that gets to choose a discovery mode uses
\* reflection when the definition selects it; otherwise it parses the union of
\* the explicitly referenced files and the tracked assets, and fails for want of
\* a schema source exactly when both are empty.
C13_ModeSelection ==
    last.mode # "none"
    => LET spec == DefOf(last)
           local == Range(spec.ProtoFiles) \cup Range(last.assets)
       IN  IF spec.ServerReflection THEN last.mode = "reflection"
           ELSE IF local = {} THEN last.mode = "nosource" /\ last.err = "NoSchemaSource"
           ELSE /\ last.mode = "local"
                /\ last.err # "NoSchemaSource"
                /\ last.disc = 1 /\ last.err # "DiscoveryFailure"
                     => {<<last.files.importPaths[i], last.files.fileNames[i]>>
                           : i \in DOMAIN last.files.fileNames} = PathPairs(local)


\* The header pairs of the entries whose enabled flag is true, in the order of
\* the entries.
IsEnabled(entry) == entry.Enable
EnabledPairs(items) ==
    LET en == SelectSeq(items, IsEnabled)
    IN  [i \in 1..Len(en) |-> <<Lower(en[i].Key), en[i].Value>>]

\* C14: when no auth entry is resolved, the metadata sent with the call is
\* exactly the enabled entries of the call definition, in their order, equal
\* keys as separate entries, and nothing of a disabled entry.
C14_EnabledMetadataInOrder ==
    (last.sent /\ prepareAuth(DefOf(last).Auth).md = <<>>)
    => last.ctx = EnabledPairs(DefOf(last).Metadata)

\* C14 witness: a call was sent for a definition with an enabled and a
\* disabled entry and no auth, and one pair went out.
C14_Witness ==
    /\ last.sent
    /\ prepareAuth(DefOf(last).Auth).md = <<>>
    /\ Len(DefOf(last).Metadata) = 2
    /\ \E i \in DOMAIN DefOf(last).Metadata : ~DefOf(last).Metadata[i].Enable
    /\ Len(last.ctx) = 1


\* A selected-method string of the form /package.Service/Method, and the
\* dotted name package.Service.Method it denotes.
SlashQualified(fullname) ==
    /\ Len(fullname) = 4
    /\ fullname[1] = "/" /\ fullname[3] = "/"
    /\ fullname[2] # "/" /\ fullname[4] # "/"
Denoted(fullname) == <<fullname[2], ".", fullname[4]>>

\* C15, as claimed: a method lookup in the registry of an identity resolves a
\* slash-qualified name to the registry's descriptor of the dotted name it
\* denotes when that is a method, fails with a lookup failure when the name is
\* not in the registry or is not a method, and resolves no name that is not of
\* the slash-qualified form.
C15_MethodLookup ==
    (/\ last.op \in {"Invoke", "GetRequestStruct"}
     /\ last.lookup # "none"
     /\ protoFilesRegistry[last.id] # NoReg)
    => LET found == IF SlashQualified(last.method)
                    THEN FindDescriptorByName(protoFilesRegistry[last.id], Denoted(last.method))
                    ELSE <<>>
       IN  IF found # <<>> /\ found[1].kind = "method" THEN last.md = found
           ELSE last.md = <<>> /\ last.err \in {"DescriptorNotFound", "NotAMethod"}


\* The call the protocol has in place i of a server-streaming call.
StepAt(i) ==
    CASE i = 1 -> "NewStream"
      [] i = 2 -> "SendMsg"
      [] i = 3 -> "CloseSend"
      [] OTHER -> "RecvMsg"

\* C16: the calls of a server-streaming call are, in this order, open stream,
\* one send, close of the send direction, then receives only; every call but
\* the last returned normally (a receive with a message), so nothing follows
\* the end of the stream, a receive error or a failed open, send or close; and
\* a failed open, send or close is the error of the call.
C16_StreamProtocol ==
    last.path = "stream"
    => LET o == last.ops
       IN  /\ Len(o) >= 1
           /\ \A i \in DOMAIN o : o[i][1] = StepAt(i)
           /\ \A i \in DOMAIN o : i < Len(o) => o[i][2] = (IF i <= 3 THEN "ok" ELSE "msg")
           /\ last.peer.setup # "ok"
                => /\ last.err = last.peer.setup
                   /\ o[Len(o)] = <<last.peer.setup, "err">>
                   /\ \A i \in DOMAIN o : o[i][1] # "RecvMsg"
           /\ (last.peer.setup = "ok" /\ last.err = "nil")
                => /\ Len(o) = 4 + Len(last.peer.msgs)
                   /\ o[Len(o)] = <<"RecvMsg", "EOF">>

\* C16 witness: a stream of two messages was opened, sent to, closed for
\* sending and received from until the end of the stream.
C16_Witness ==
    /\ last.path = "stream"
    /\ last.err = "nil"
    /\ Len(last.ops) = 6
    /\ last.ops[3] = <<"CloseSend", "ok">>
    /\ last.ops[6] = <<"RecvMsg", "EOF">>


\* C18, as claimed: an Invoke of a stored definition with an environment id
\* that is empty or names no stored environment does not crash; it goes on with
\* the definition as the global variables alone substitute it, as GetServices
\* does, and leaves the environment store alone.
C18_AbsentEnvironmentTolerated ==
    (/\ last.op = "Invoke"
     /\ last.id \in RequestIds
     /\ getActiveEnvironment(last.env) = <<>>)
    => /\ ~last.panic
       /\ last.method = ApplyToGRPCRequest(GetVariables, DefOf(last)).LasSelectedMethod


\* C19, as claimed: no operation changes a call definition of the request
\* store or an environment of the environment store.
C19_StoresReadOnly ==
    [][requests' = requests /\ environments' = environments]_vars


\* The errors with which a resolution fails.
ResolutionFailures == {"ErrRequestNotFound", "DialFailure", "DiscoveryFailure", "NoSchemaSource"}

\* C20: a successful GetServices leaves a registry under its identity and every
\* other entry as it was; a getMethodDesc that had to resolve first, and did,
\* finds a registry under the identity when it looks the method up; and an
\* operation that ends with a resolution failure leaves the whole cache as it
\* was, an earlier entry of that identity included.
C20_CacheAllOrNothing ==
    [][/\ (last'.op = "GetServices" /\ last'.err = "nil")
            => /\ protoFilesRegistry'[last'.id] \in Registries
               /\ \A id \in CallerIds \ {last'.id} :
                     protoFilesRegistry'[id] = protoFilesRegistry[id]
       /\ (/\ last'.op \in {"Invoke", "GetRequestStruct"}
           /\ last'.lookup = "miss"
           /\ last'.err \notin ResolutionFailures)
            => /\ protoFilesRegistry'[last'.id] \in Registries
               /\ \A id \in CallerIds \ {last'.id} :
                     protoFilesRegistry'[id] = protoFilesRegistry[id]
       /\ last'.err \in ResolutionFailures
            => protoFilesRegistry' = protoFilesRegistry]_vars

\* C20 witness: a GetServices failed in discovery for an identity that had an
\* entry, and the entry is still there.
C20_Witness ==
    /\ last.op = "GetServices"
    /\ last.err = "DiscoveryFailure"
    /\ protoFilesRegistry[last.id] \in Registries


\* C17, as claimed: an Invoke never waits on the peer for longer than the
\* timeout of its call definition allows, whether it waits for the answer to
\* the call or, after a cache miss, for the answer to reflection discovery.
C17_NoWaitPastDeadline ==
    \A p \in LiveProcs :
        procs[p].pc \in {"discovering", "calling"}
        => procs[p].waited <= TimeOut(requests[procs[p].id].Settings.TimeoutMilliseconds)

====
